---------------------------- MODULE Spec2Model ----------------------------
(***************************************************************************)
(* Model of src/enums/secdesc.rs: the nom decoders of the Windows security *)
(* descriptor header, SID, ACL and ACE wire structures, and the AceFormat  *)
(* projections.                                                            *)
(*                                                                         *)
(* A byte is a number in 0..255, a buffer is a sequence of bytes.  A u8    *)
(* and a u16 are kept as numbers.  A u32 and a u128 do not fit a model     *)
(* integer, so they are kept as their base-256 digits, most significant    *)
(* digit first (4 digits, respectively 16 digits): two such values are     *)
(* equal exactly when the numbers are.  U32Value gives the number when it  *)
(* is small enough.                                                        *)
(*                                                                         *)
(* The outcome of a decoder is one of                                      *)
(*   [kind |-> "Ok", rec |-> record, rem |-> unconsumed bytes]             *)
(*   [kind |-> "Err", err |-> "InsufficientData" | "UnrecognizedVariant"]  *)
(*   [kind |-> "Panic"]            the thread unwinds out of the decoder   *)
(* "InsufficientData" stands for nom's Eof error / Incomplete result,      *)
(* "UnrecognizedVariant" for nom's ErrorKind::Switch.                      *)
(***************************************************************************)
EXTENDS Integers, Sequences, FiniteSets, TLC

VARIABLES input, pc, decoder, result, getter, value, ret

vars == <<input, pc, decoder, result, getter, value, ret>>

-----------------------------------------------------------------------------
(* Bounds of the model *)

\* largest sub_authority_count of the well-formed SIDs the inputs are built from
MaxSubAuth == 2
\* largest ace_count of the well-formed ACLs the inputs are built from
MaxAces == 2
\* largest number of bytes appended after a well-formed structure
MaxExtra == 2

-----------------------------------------------------------------------------
(* Outcomes *)

InsufficientData == "InsufficientData"
UnrecognizedVariant == "UnrecognizedVariant"

Ok(rec, rem) == [kind |-> "Ok", rec |-> rec, rem |-> rem]
Err(e) == [kind |-> "Err", err |-> e]
Panic == [kind |-> "Panic"]

IsOk(r) == r.kind = "Ok"

\* AceFormat::Empty
Empty == [variant |-> "Empty"]

\* Option<T>
None == [some |-> FALSE]
Some(v) == [some |-> TRUE, v |-> v]

Drop(i, n) == SubSeq(i, n + 1, Len(i))

-----------------------------------------------------------------------------
(* nom primitives *)

\* nom::number::complete::le_u8
le_u8(i) ==
    IF Len(i) < 1 THEN Err(InsufficientData) ELSE Ok(i[1], Drop(i, 1))

\* nom::number::complete::le_u16: the first byte is the low one
le_u16(i) ==
    IF Len(i) < 2 THEN Err(InsufficientData)
    ELSE Ok(i[1] + 256 * i[2], Drop(i, 2))

\* nom::number::complete::le_u32, as digits, most significant first
le_u32(i) ==
    IF Len(i) < 4 THEN Err(InsufficientData)
    ELSE Ok(<<i[4], i[3], i[2], i[1]>>, Drop(i, 4))

\* nom::number::complete::le_u128, as digits, most significant first
le_u128(i) ==
    IF Len(i) < 16 THEN Err(InsufficientData)
    ELSE Ok([k \in 1..16 |-> i[17 - k]], Drop(i, 16))

\* take!(n) gone wrong: the bytes are returned but the input is not advanced
take_peek(i, n) ==
    IF Len(i) < n THEN Err(InsufficientData)
    ELSE Ok(SubSeq(i, 1, n), i)

\* take!(n)
take(i, n) ==
    IF Len(i) < n THEN Err(InsufficientData)
    ELSE Ok(SubSeq(i, 1, n), Drop(i, n))

\* the number a u32 stands for, when its top digit lets it fit
U32Value(d) == ((d[1] * 256 + d[2]) * 256 + d[3]) * 256 + d[4]

-----------------------------------------------------------------------------
(* Type tags of crate::enums::constants, used as the patterns of the switch *)

ACCESS_ALLOWED_ACE_TYPE == 0
ACCESS_DENIED_ACE_TYPE == 1
ACCESS_ALLOWED_OBJECT_ACE_TYPE == 5
ACCESS_DENIED_OBJECT_ACE_TYPE == 6

\* the bits of ObjectAceFlags
ACE_OBJECT_PRESENT == 1
ACE_INHERITED_OBJECT_PRESENT == 2

-----------------------------------------------------------------------------
(* Decoders *)

\* one step of do_parse!: the next field is read from what the previous one
\* left, and the first outcome that is not Ok ends the whole decoder
Then(r, F(_)) == IF IsOk(r) THEN F(r) ELSE r

\* the header with offset_dacl read before offset_sacl
SecurityDescriptor_parse_swapped(i) ==
    Then(le_u8(i), LAMBDA revision :
    Then(le_u8(revision.rem), LAMBDA sbz1 :
    Then(le_u16(sbz1.rem), LAMBDA control :
    Then(le_u32(control.rem), LAMBDA offset_owner :
    Then(le_u32(offset_owner.rem), LAMBDA offset_group :
    Then(le_u32(offset_group.rem), LAMBDA offset_dacl :
    Then(le_u32(offset_dacl.rem), LAMBDA offset_sacl :
    Ok([revision |-> revision.rec, sbz1 |-> sbz1.rec, control |-> control.rec,
        offset_owner |-> offset_owner.rec, offset_group |-> offset_group.rec,
        offset_sacl |-> offset_sacl.rec, offset_dacl |-> offset_dacl.rec],
       offset_sacl.rem))))))))

SecurityDescriptor_parse(i) ==
    Then(le_u8(i), LAMBDA revision :
    Then(le_u8(revision.rem), LAMBDA sbz1 :
    Then(le_u16(sbz1.rem), LAMBDA control :
    Then(le_u32(control.rem), LAMBDA offset_owner :
    Then(le_u32(offset_owner.rem), LAMBDA offset_group :
    Then(le_u32(offset_group.rem), LAMBDA offset_sacl :
    Then(le_u32(offset_sacl.rem), LAMBDA offset_dacl :
    Ok([revision |-> revision.rec, sbz1 |-> sbz1.rec, control |-> control.rec,
        offset_owner |-> offset_owner.rec, offset_group |-> offset_group.rec,
        offset_sacl |-> offset_sacl.rec, offset_dacl |-> offset_dacl.rec],
       offset_dacl.rem))))))))

LdapSidIdentifiedAuthority_parse(i) ==
    Then(take(i, 6), LAMBDA v : Ok([value |-> v.rec], v.rem))

\* count!(le_u32, n): n values one after another, the first failure ends it
RECURSIVE count_le_u32(_, _)
count_le_u32(n, i) ==
    IF n = 0 THEN Ok(<<>>, i)
    ELSE Then(le_u32(i), LAMBDA r :
         Then(count_le_u32(n - 1, r.rem), LAMBDA rest :
         Ok(<<r.rec>> \o rest.rec, rest.rem)))

\* many0!(le_u32): values are read for as long as 4 bytes are left
RECURSIVE many0_le_u32(_)
many0_le_u32(i) ==
    IF Len(i) < 4 THEN Ok(<<>>, i)
    ELSE LET rest == many0_le_u32(Drop(i, 4))
         IN Ok(<<le_u32(i).rec>> \o rest.rec, rest.rem)

\* the SID with the sub-authorities read by many0! instead of count!
LdapSid_parse_many0(i) ==
    Then(le_u8(i), LAMBDA revision :
    Then(le_u8(revision.rem), LAMBDA sub_authority_count :
    Then(LdapSidIdentifiedAuthority_parse(sub_authority_count.rem),
         LAMBDA identifier_authority :
    Then(many0_le_u32(identifier_authority.rem), LAMBDA sub_authority :
    Ok([revision |-> revision.rec,
        sub_authority_count |-> sub_authority_count.rec,
        identifier_authority |-> identifier_authority.rec,
        sub_authority |-> sub_authority.rec], sub_authority.rem)))))

LdapSid_parse(i) ==
    Then(le_u8(i), LAMBDA revision :
    Then(le_u8(revision.rem), LAMBDA sub_authority_count :
    Then(LdapSidIdentifiedAuthority_parse(sub_authority_count.rem),
         LAMBDA identifier_authority :
    Then(count_le_u32(sub_authority_count.rec, identifier_authority.rem),
         LAMBDA sub_authority :
    Ok([revision |-> revision.rec,
        sub_authority_count |-> sub_authority_count.rec,
        identifier_authority |-> identifier_authority.rec,
        sub_authority |-> sub_authority.rec], sub_authority.rem)))))

\* ObjectAceFlags::all().bits(): the defined bits
ObjectAceFlags_all == ACE_OBJECT_PRESENT + ACE_INHERITED_OBJECT_PRESENT

\* ObjectAceFlags::from_bits: None when a bit outside the defined ones is set
from_bits(d) ==
    IF d[1] = 0 /\ d[2] = 0 /\ d[3] = 0 /\ d[4] <= ObjectAceFlags_all
    THEN Some([bits |-> d])
    ELSE None

\* flags.contains(bit), for a one-bit constant below 256
contains(flags, bit) == (flags.bits[4] \div bit) % 2 = 1

\* Option::unwrap: the value of Some, a panic on None
unwrap(o, rem) == IF o.some THEN Ok(o.v, rem) ELSE Panic

ObjectAceFlags_parse(i) ==
    Then(le_u32(i), LAMBDA flags : unwrap(from_bits(flags.rec), flags.rem))

\* cond!(c, le_u128): Some(value) when c, None and nothing consumed otherwise
cond_le_u128(c, i) ==
    IF c THEN Then(le_u128(i), LAMBDA r : Ok(Some(r.rec), r.rem))
    ELSE Ok(None, i)

AccessAllowedAce_parse(i) ==
    Then(le_u32(i), LAMBDA mask :
    Then(LdapSid_parse(mask.rem), LAMBDA sid :
    Ok([variant |-> "AceAllowed", mask |-> mask.rec, sid |-> sid.rec], sid.rem)))

\* the object payload with the inherited-object-type GUID read first
AccessAllowedObjectAce_parse_swapped(i) ==
    Then(le_u32(i), LAMBDA mask :
    Then(ObjectAceFlags_parse(mask.rem), LAMBDA flags :
    Then(cond_le_u128(contains(flags.rec, ACE_INHERITED_OBJECT_PRESENT), flags.rem),
         LAMBDA inherited_object_type :
    Then(cond_le_u128(contains(flags.rec, ACE_OBJECT_PRESENT),
                      inherited_object_type.rem),
         LAMBDA object_type :
    Then(LdapSid_parse(object_type.rem), LAMBDA sid :
    Ok([variant |-> "AceObjectAllowed", mask |-> mask.rec, flags |-> flags.rec,
        object_type |-> object_type.rec,
        inherited_object_type |-> inherited_object_type.rec,
        sid |-> sid.rec], sid.rem))))))

AccessAllowedObjectAce_parse(i) ==
    Then(le_u32(i), LAMBDA mask :
    Then(ObjectAceFlags_parse(mask.rem), LAMBDA flags :
    Then(cond_le_u128(contains(flags.rec, ACE_OBJECT_PRESENT), flags.rem),
         LAMBDA object_type :
    Then(cond_le_u128(contains(flags.rec, ACE_INHERITED_OBJECT_PRESENT),
                      object_type.rem),
         LAMBDA inherited_object_type :
    Then(LdapSid_parse(inherited_object_type.rem), LAMBDA sid :
    Ok([variant |-> "AceObjectAllowed", mask |-> mask.rec, flags |-> flags.rec,
        object_type |-> object_type.rec,
        inherited_object_type |-> inherited_object_type.rec,
        sid |-> sid.rec], sid.rem))))))

\* the switch with a default arm that decodes any other tag as Allowed
Ace_switch_default_allowed(ace_type, i) ==
    CASE ace_type = ACCESS_ALLOWED_OBJECT_ACE_TYPE -> AccessAllowedObjectAce_parse(i)
      [] ace_type = ACCESS_DENIED_OBJECT_ACE_TYPE -> AccessAllowedObjectAce_parse(i)
      [] OTHER -> AccessAllowedAce_parse(i)

\* the switch with a default arm that produces the Empty placeholder
Ace_switch_default_empty(ace_type, i) ==
    CASE ace_type = ACCESS_ALLOWED_ACE_TYPE -> AccessAllowedAce_parse(i)
      [] ace_type = ACCESS_DENIED_ACE_TYPE -> AccessAllowedAce_parse(i)
      [] ace_type = ACCESS_ALLOWED_OBJECT_ACE_TYPE -> AccessAllowedObjectAce_parse(i)
      [] ace_type = ACCESS_DENIED_OBJECT_ACE_TYPE -> AccessAllowedObjectAce_parse(i)
      [] OTHER -> Ok(Empty, i)

\* switch!(value!(ace_type), ...): no default arm, any other tag is an error
Ace_switch(ace_type, i) ==
    CASE ace_type = ACCESS_ALLOWED_ACE_TYPE -> AccessAllowedAce_parse(i)
      [] ace_type = ACCESS_DENIED_ACE_TYPE -> AccessAllowedAce_parse(i)
      [] ace_type = ACCESS_ALLOWED_OBJECT_ACE_TYPE -> AccessAllowedObjectAce_parse(i)
      [] ace_type = ACCESS_DENIED_OBJECT_ACE_TYPE -> AccessAllowedObjectAce_parse(i)
      [] OTHER -> Err(UnrecognizedVariant)

\* the ACE with its payload decoded from the ace_size - 4 bytes after the
\* header, and the next ACE starting right after them
Ace_parse_sized(i) ==
    Then(le_u8(i), LAMBDA ace_type :
    Then(le_u8(ace_type.rem), LAMBDA ace_flags :
    Then(le_u16(ace_flags.rem), LAMBDA ace_size :
    IF ace_size.rec < 4 THEN Err(InsufficientData)
    ELSE Then(take(ace_size.rem, ace_size.rec - 4), LAMBDA body :
         Then(Ace_switch(ace_type.rec, body.rec), LAMBDA data :
         Ok([ace_type |-> ace_type.rec, ace_flags |-> ace_flags.rec,
             ace_size |-> ace_size.rec, data |-> data.rec], body.rem))))))

Ace_parse(i) ==
    Then(le_u8(i), LAMBDA ace_type :
    Then(le_u8(ace_type.rem), LAMBDA ace_flags :
    Then(le_u16(ace_flags.rem), LAMBDA ace_size :
    Then(Ace_switch(ace_type.rec, ace_size.rem), LAMBDA data :
    Ok([ace_type |-> ace_type.rec, ace_flags |-> ace_flags.rec,
        ace_size |-> ace_size.rec, data |-> data.rec], data.rem)))))

\* the repetition that ends at the first ACE that fails and keeps what it has
RECURSIVE count_Ace_partial(_, _)
count_Ace_partial(n, i) ==
    IF n = 0 THEN Ok(<<>>, i)
    ELSE LET r == Ace_parse(i)
         IN IF ~IsOk(r) THEN Ok(<<>>, i)
            ELSE Then(count_Ace_partial(n - 1, r.rem), LAMBDA rest :
                 Ok(<<r.rec>> \o rest.rec, rest.rem))

\* count!(Ace::parse, n)
RECURSIVE count_Ace(_, _)
count_Ace(n, i) ==
    IF n = 0 THEN Ok(<<>>, i)
    ELSE Then(Ace_parse(i), LAMBDA r :
         Then(count_Ace(n - 1, r.rem), LAMBDA rest :
         Ok(<<r.rec>> \o rest.rec, rest.rem)))

Acl_parse(i) ==
    Then(le_u8(i), LAMBDA acl_revision :
    Then(le_u8(acl_revision.rem), LAMBDA sbz1 :
    Then(le_u16(sbz1.rem), LAMBDA acl_size :
    Then(le_u16(acl_size.rem), LAMBDA ace_count :
    Then(le_u16(ace_count.rem), LAMBDA sbz2 :
    Then(count_Ace(ace_count.rec, sbz2.rem), LAMBDA data :
    Ok([acl_revision |-> acl_revision.rec, sbz1 |-> sbz1.rec,
        acl_size |-> acl_size.rec, ace_count |-> ace_count.rec,
        sbz2 |-> sbz2.rec, data |-> data.rec], data.rem)))))))

-----------------------------------------------------------------------------
(* The projections of AceFormat *)

get_mask(a) ==
    CASE a.variant = "AceAllowed" -> Some(a.mask)
      [] a.variant = "AceObjectAllowed" -> Some(a.mask)
      [] a.variant = "Empty" -> None

get_sid(a) ==
    CASE a.variant = "AceAllowed" -> Some(a.sid)
      [] a.variant = "AceObjectAllowed" -> Some(a.sid)
      [] a.variant = "Empty" -> None

get_flags(a) ==
    CASE a.variant = "AceAllowed" -> None
      [] a.variant = "AceObjectAllowed" -> Some(a.flags)
      [] a.variant = "Empty" -> None

get_object_type(a) ==
    CASE a.variant = "AceAllowed" -> None
      [] a.variant = "AceObjectAllowed" -> a.object_type
      [] a.variant = "Empty" -> None

\* the projection returning the wrong GUID field
get_inherited_object_type_wrong_field(a) ==
    CASE a.variant = "AceAllowed" -> None
      [] a.variant = "AceObjectAllowed" -> a.object_type
      [] a.variant = "Empty" -> None

get_inherited_object_type(a) ==
    CASE a.variant = "AceAllowed" -> None
      [] a.variant = "AceObjectAllowed" -> a.inherited_object_type
      [] a.variant = "Empty" -> None

-----------------------------------------------------------------------------
(* Input buffers.  The well-formed structures are the ones of the tests of   *)
(* secdesc.rs; the inputs are these, every prefix of them, every one-byte    *)
(* change of them, each followed by trailing bytes, and all short buffers.   *)

ByteVals == {0, 1, 2, 3, 4, 5, 6, 255}

\* the header of test_secdesc
TestHeader == <<1, 0, 4, 140, 120, 9, 0, 0, 0, 0, 0, 0, 0, 0, 0, 0, 20, 0, 0, 0>>

\* S-1-5-32-544 for n = 2, as in test_ace; sub-authority k is 32 + 512*(k-1)
SidBytes(n) ==
    [j \in 1..(8 + 4 * n) |->
        IF j <= 8 THEN <<1, n, 0, 0, 0, 0, 0, 5>>[j]
        ELSE <<32, 2 * ((j - 9) \div 4), 0, 0>>[((j - 9) % 4) + 1]]

ObjectGuid == <<0, 66, 22, 76, 192, 32, 208, 17, 167, 104, 0, 170, 0, 110, 5, 41>>
InheritedGuid == <<186, 122, 150, 191, 230, 13, 208, 17, 162, 133, 0, 170, 0, 48, 73, 226>>

AllowedPayloadBytes(n) == <<189, 1, 15, 0>> \o SidBytes(n)

ObjectPayloadBytes(fl, n) ==
    <<148, 0, 2, 0>> \o <<fl, 0, 0, 0>>
    \o (IF fl % 2 = 1 THEN ObjectGuid ELSE <<>>)
    \o (IF (fl \div 2) % 2 = 1 THEN InheritedGuid ELSE <<>>)
    \o SidBytes(n)

\* an ACE whose ace_size is its true length
AceBytes(t, payload) == <<t, 18, 4 + Len(payload), 0>> \o payload

AceBases ==
    {AceBytes(ACCESS_ALLOWED_ACE_TYPE, AllowedPayloadBytes(n)) : n \in 0..MaxSubAuth}
    \cup {AceBytes(ACCESS_DENIED_ACE_TYPE, AllowedPayloadBytes(MaxSubAuth))}
    \cup {AceBytes(ACCESS_ALLOWED_OBJECT_ACE_TYPE, ObjectPayloadBytes(fl, 1)) : fl \in 0..3}
    \cup {AceBytes(ACCESS_DENIED_OBJECT_ACE_TYPE, ObjectPayloadBytes(3, MaxSubAuth))}

\* the ACEs an ACL is filled with, in turn
AceMenu ==
    << AceBytes(ACCESS_ALLOWED_ACE_TYPE, AllowedPayloadBytes(2)),
       AceBytes(ACCESS_ALLOWED_OBJECT_ACE_TYPE, ObjectPayloadBytes(2, 1)),
       AceBytes(ACCESS_DENIED_ACE_TYPE, AllowedPayloadBytes(0)),
       AceBytes(ACCESS_DENIED_OBJECT_ACE_TYPE, ObjectPayloadBytes(1, 1)) >>

RECURSIVE AcesFrom(_, _)
AcesFrom(s, c) ==
    IF c = 0 THEN <<>>
    ELSE AceMenu[((s - 1) % Len(AceMenu)) + 1] \o AcesFrom(s + 1, c - 1)

\* an ACL of c ACEs whose acl_size is its true length
AclBytes(s, c) ==
    LET aces == AcesFrom(s, c)
        size == 8 + Len(aces)
    IN <<4, 0, size % 256, size \div 256, c, 0, 0, 0>> \o aces

AclBases == {AclBytes(s, c) : s \in 1..2, c \in 0..MaxAces}

Bases ==
    {TestHeader} \cup {SidBytes(n) : n \in 0..MaxSubAuth}
    \cup {AllowedPayloadBytes(1)} \cup {ObjectPayloadBytes(fl, 1) : fl \in 0..3}
    \cup AceBases \cup AclBases

Trail(k) == [j \in 1..k |-> IF j % 2 = 1 THEN 255 ELSE 0]

Inputs ==
    {SubSeq(b, 1, k) : <<b, k>> \in {<<b, k>> \in Bases \X (0..200) : k <= Len(b)}}
    \cup UNION {{[b EXCEPT ![p] = v] : p \in 1..Len(b), v \in ByteVals} : b \in Bases}
    \cup {b \o Trail(k) : b \in Bases, k \in 1..MaxExtra}
    \cup UNION {[1..k -> ByteVals] : k \in 1..2}

-----------------------------------------------------------------------------
(* The state: a caller holds a buffer, runs one decoder on it, and may pass  *)
(* a payload to one projection.                                              *)

Init ==
    /\ input \in Inputs
    /\ pc = "start"
    /\ decoder = "none"
    /\ result = [kind |-> "none"]
    /\ getter = "none"
    /\ value = [variant |-> "none"]
    /\ ret = None

Decode(name, r) ==
    /\ pc = "start"
    /\ pc' = "decoded"
    /\ decoder' = name
    /\ result' = r
    /\ UNCHANGED <<input, getter, value, ret>>

CallSecurityDescriptor == Decode("SecurityDescriptor", SecurityDescriptor_parse(input))
CallLdapSidIdentifiedAuthority ==
    Decode("LdapSidIdentifiedAuthority", LdapSidIdentifiedAuthority_parse(input))
CallLdapSid == Decode("LdapSid", LdapSid_parse(input))
CallObjectAceFlags == Decode("ObjectAceFlags", ObjectAceFlags_parse(input))
CallAccessAllowedAce == Decode("AccessAllowedAce", AccessAllowedAce_parse(input))
CallAccessAllowedObjectAce ==
    Decode("AccessAllowedObjectAce", AccessAllowedObjectAce_parse(input))
CallAce == Decode("Ace", Ace_parse(input))
CallAcl == Decode("Acl", Acl_parse(input))

\* the AceFormat values a caller holds: the ones of the record it decoded,
\* or, with nothing decoded, the Empty placeholder it built itself
Payloads ==
    IF pc = "start" THEN {Empty}
    ELSE IF pc # "decoded" \/ ~IsOk(result) THEN {}
    ELSE CASE decoder = "Ace" -> {result.rec.data}
           [] decoder \in {"AccessAllowedAce", "AccessAllowedObjectAce"} -> {result.rec}
           [] decoder = "Acl" -> {result.rec.data[k].data : k \in 1..Len(result.rec.data)}
           [] OTHER -> {}

Project(name, a, r) ==
    /\ pc' = "projected"
    /\ getter' = name
    /\ value' = a
    /\ ret' = r
    /\ UNCHANGED <<input, decoder, result>>

CallGetMask == \E a \in Payloads : Project("get_mask", a, get_mask(a))
CallGetSid == \E a \in Payloads : Project("get_sid", a, get_sid(a))
CallGetFlags == \E a \in Payloads : Project("get_flags", a, get_flags(a))
CallGetObjectType == \E a \in Payloads : Project("get_object_type", a, get_object_type(a))
CallGetInheritedObjectType ==
    \E a \in Payloads :
        Project("get_inherited_object_type", a, get_inherited_object_type(a))

Next ==
    \/ CallSecurityDescriptor
    \/ CallLdapSidIdentifiedAuthority
    \/ CallLdapSid
    \/ CallObjectAceFlags
    \/ CallAccessAllowedAce
    \/ CallAccessAllowedObjectAce
    \/ CallAce
    \/ CallAcl
    \/ CallGetMask
    \/ CallGetSid
    \/ CallGetFlags
    \/ CallGetObjectType
    \/ CallGetInheritedObjectType

Spec == Init /\ [][Next]_vars

-----------------------------------------------------------------------------
(* Reference readings of the wire format, used to state the properties *)

Take(i, n) == SubSeq(i, 1, n)

\* the little-endian values of the bytes at positions p.. of buffer i
LE16(i, p) == i[p] + 256 * i[p + 1]
LE32(i, p) == <<i[p + 3], i[p + 2], i[p + 1], i[p]>>
LE128(i, p) == [k \in 1..16 |-> i[p + 16 - k]]

Bit(b, m) == (b \div m) % 2

Decoded(name) == pc = "decoded" /\ decoder = name

\* the decoder of that name applied to buffer i
Run(name, i) ==
    CASE name = "SecurityDescriptor" -> SecurityDescriptor_parse(i)
      [] name = "LdapSidIdentifiedAuthority" -> LdapSidIdentifiedAuthority_parse(i)
      [] name = "LdapSid" -> LdapSid_parse(i)
      [] name = "ObjectAceFlags" -> ObjectAceFlags_parse(i)
      [] name = "AccessAllowedAce" -> AccessAllowedAce_parse(i)
      [] name = "AccessAllowedObjectAce" -> AccessAllowedObjectAce_parse(i)
      [] name = "Ace" -> Ace_parse(i)
      [] name = "Acl" -> Acl_parse(i)

AllowedTags == {ACCESS_ALLOWED_ACE_TYPE, ACCESS_DENIED_ACE_TYPE}
ObjectTags == {ACCESS_ALLOWED_OBJECT_ACE_TYPE, ACCESS_DENIED_OBJECT_ACE_TYPE}

\* outcome r of Ace::parse is what payload outcome p gives under header bytes h
WrapsPayload(r, h, p) ==
    IF IsOk(p)
    THEN r = Ok([ace_type |-> h[1], ace_flags |-> h[2], ace_size |-> LE16(h, 3),
                 data |-> p.rec], p.rem)
    ELSE r = p

-----------------------------------------------------------------------------
\* C1: Ace::parse of a buffer holding the 4-byte header dispatches on the type
\* byte alone: tags ACCESS_ALLOWED and ACCESS_DENIED give the outcome of the
\* Allowed decoder on the bytes after the header (the same payload under either
\* tag), tags ACCESS_ALLOWED_OBJECT and ACCESS_DENIED_OBJECT the outcome of the
\* ObjectAllowed decoder, and any other tag fails with UnrecognizedVariant
\* whatever follows the header.
C1_Dispatch ==
    (Decoded("Ace") /\ Len(input) >= 4) =>
        LET t == input[1]
            payload == Drop(input, 4)
        IN /\ t \in AllowedTags =>
                /\ WrapsPayload(result, input, AccessAllowedAce_parse(payload))
                /\ \A u \in AllowedTags :
                      LET other == Ace_parse([input EXCEPT ![1] = u])
                      IN IF IsOk(result)
                         THEN /\ IsOk(other)
                              /\ other.rec.data = result.rec.data
                              /\ other.rec.data.variant = "AceAllowed"
                              /\ other.rem = result.rem
                         ELSE other = result
           /\ t \in ObjectTags =>
                WrapsPayload(result, input, AccessAllowedObjectAce_parse(payload))
           /\ t \notin (AllowedTags \cup ObjectTags) =>
                result = Err(UnrecognizedVariant)

C1_Witness ==
    /\ Decoded("Ace")
    /\ Len(input) > 4
    /\ input[1] = 255
    /\ result = Err(UnrecognizedVariant)

-----------------------------------------------------------------------------
\* the outcomes of the ACE decodes made one after another from buffer i, up to
\* n of them, ending with the first one that is not Ok
RECURSIVE AceRun(_, _)
AceRun(n, i) ==
    IF n = 0 THEN <<>>
    ELSE LET r == Ace_parse(i)
         IN IF IsOk(r) THEN <<r>> \o AceRun(n - 1, r.rem) ELSE <<r>>

-----------------------------------------------------------------------------
\* C3: the ObjectAceFlags decoder, and the ObjectAllowed payload decoder that
\* reads its flags with it, never abort on a 32-bit flags word, bits outside
\* 0x1 and 0x2 included: the flags decoder succeeds on every 4 bytes and keeps
\* every bit of the word, and a decode that does not succeed ends in
\* InsufficientData or UnrecognizedVariant.
C3_FlagsNeverAbort ==
    /\ (Decoded("ObjectAceFlags") /\ Len(input) >= 4) =>
          /\ IsOk(result)
          /\ result.rec.bits = LE32(input, 1)
    /\ (pc = "decoded" /\ ~IsOk(result)) =>
          /\ result.kind = "Err"
          /\ result.err \in {InsufficientData, UnrecognizedVariant}

-----------------------------------------------------------------------------
\* C4: a successful ObjectAllowed payload decode takes mask (4 bytes), flags
\* (4 bytes), object-type GUID, inherited-object-type GUID and SID in this
\* order: the object-type GUID is present iff bit 0x1 of the flags is set, the
\* inherited-object-type GUID iff bit 0x2 is set, each present GUID is the
\* next 16 bytes (with bit 0x2 alone, the 16 bytes right after the flags are
\* the inherited-object-type GUID), and the SID starts after
\* 8 + 16*(bit 0x1) + 16*(bit 0x2) bytes.
C4_ObjectLayout ==
    (Decoded("AccessAllowedObjectAce") /\ IsOk(result)) =>
        LET b1 == Bit(input[5], 1)
            b2 == Bit(input[5], 2)
            r == result.rec
        IN /\ r.mask = LE32(input, 1)
           /\ r.flags.bits = LE32(input, 5)
           /\ r.object_type.some <=> b1 = 1
           /\ r.inherited_object_type.some <=> b2 = 1
           /\ b1 = 1 => r.object_type.v = LE128(input, 9)
           /\ b2 = 1 => r.inherited_object_type.v = LE128(input, 9 + 16 * b1)
           /\ LdapSid_parse(Drop(input, 8 + 16 * b1 + 16 * b2)) = Ok(r.sid, result.rem)

C4_Witness ==
    /\ Decoded("AccessAllowedObjectAce")
    /\ IsOk(result)
    /\ LE32(input, 5) = <<0, 0, 0, 2>>
    /\ ~result.rec.object_type.some
    /\ result.rec.inherited_object_type = Some(LE128(input, 9))

-----------------------------------------------------------------------------
\* C5: with N the second byte of a buffer of at least 2 bytes, LdapSid::parse
\* succeeds iff the buffer has at least 8 + 4N bytes and fails with
\* InsufficientData otherwise; on success it consumes exactly 8 + 4N bytes,
\* the authority is bytes 2..7 (counted from 0) verbatim, and the
\* sub-authorities are N values, N being the decoded sub_authority_count, each
\* the little-endian reading of its 4 bytes.
C5_SidLength ==
    (Decoded("LdapSid") /\ Len(input) >= 2) =>
        LET n == input[2]
        IN IF Len(input) >= 8 + 4 * n
           THEN /\ IsOk(result)
                /\ result.rem = Drop(input, 8 + 4 * n)
                /\ result.rec.revision = input[1]
                /\ result.rec.sub_authority_count = n
                /\ result.rec.identifier_authority.value = SubSeq(input, 3, 8)
                /\ Len(result.rec.sub_authority) = n
                /\ \A k \in 1..n :
                      result.rec.sub_authority[k] = LE32(input, 5 + 4 * k)
           ELSE result = Err(InsufficientData)

C5_Witness ==
    /\ Decoded("LdapSid")
    /\ IsOk(result)
    /\ result.rec.sub_authority_count = 2
    /\ result.rec.identifier_authority.value = <<0, 0, 0, 0, 0, 5>>
    /\ U32Value(result.rec.sub_authority[1]) = 32
    /\ U32Value(result.rec.sub_authority[2]) = 544

-----------------------------------------------------------------------------
\* the offsets in buffer i at which the ACE decodes of Acl::parse start
AceStarts(i) ==
    IF Len(i) < 8 THEN {}
    ELSE LET run == AceRun(LE16(i, 5), Drop(i, 8))
         IN {IF k = 1 THEN 8 ELSE Len(i) - Len(run[k - 1].rem) : k \in 1..Len(run)}

\* the positions of the declared size bytes in a buffer given to a decoder
SizePositions(name, i) ==
    (CASE name = "Ace" -> {3, 4}
       [] name = "Acl" -> {3, 4} \cup UNION {{s + 3, s + 4} : s \in AceStarts(i)})
    \cap (1..Len(i))

\* an outcome with the recorded sizes left out
NoSizes(name, r) ==
    IF ~IsOk(r) THEN r
    ELSE CASE name = "Ace" -> [r EXCEPT !.rec.ace_size = 0]
           [] name = "Acl" ->
                [r EXCEPT !.rec.acl_size = 0,
                          !.rec.data = [k \in 1..Len(@) |-> [@[k] EXCEPT !.ace_size = 0]]]

\* C6: the declared sizes never influence decoding: a buffer that differs from
\* the input only in acl_size bytes or ace_size bytes gives, under Acl::parse
\* and under Ace::parse, the same failure, or the same entries, payloads and
\* remainder, differing in the recorded sizes only.
C6_SizesIgnored ==
    \A name \in {"Ace", "Acl"} :
        Decoded(name) =>
            LET ps == SizePositions(name, input)
            IN \A v \in ByteVals :
                  /\ \A p \in ps :
                        NoSizes(name, Run(name, [input EXCEPT ![p] = v]))
                            = NoSizes(name, result)
                  /\ NoSizes(name, Run(name,
                        [q \in 1..Len(input) |-> IF q \in ps THEN v ELSE input[q]]))
                        = NoSizes(name, result)

C6_Witness ==
    /\ Decoded("Acl")
    /\ IsOk(result)
    /\ Len(result.rec.data) = 2
    /\ result.rem = <<>>
    /\ result.rec.acl_size # Len(input)

-----------------------------------------------------------------------------
\* C7: SecurityDescriptor::parse succeeds iff the buffer has at least 20 bytes
\* and fails with InsufficientData otherwise; on success it consumes exactly
\* 20 bytes and the fields are revision = byte 0, reserved = byte 1, control =
\* bytes 2..3, and the four offsets = bytes 4..7, 8..11, 12..15, 16..19, all
\* little-endian; no offset value makes it fail.  The header of test_secdesc
\* gives revision 1, control 0x8C04, owner 2424, group 0, sacl 0, dacl 20.
C7_Header ==
    Decoded("SecurityDescriptor") =>
        IF Len(input) >= 20
        THEN /\ IsOk(result)
             /\ result.rem = Drop(input, 20)
             /\ result.rec = [revision |-> input[1], sbz1 |-> input[2],
                              control |-> LE16(input, 3),
                              offset_owner |-> LE32(input, 5),
                              offset_group |-> LE32(input, 9),
                              offset_sacl |-> LE32(input, 13),
                              offset_dacl |-> LE32(input, 17)]
             /\ input = TestHeader =>
                   /\ result.rec.revision = 1
                   /\ result.rec.control = 35844
                   /\ U32Value(result.rec.offset_owner) = 2424
                   /\ U32Value(result.rec.offset_group) = 0
                   /\ U32Value(result.rec.offset_sacl) = 0
                   /\ U32Value(result.rec.offset_dacl) = 20
        ELSE result = Err(InsufficientData)

C7_Witness ==
    /\ Decoded("SecurityDescriptor")
    /\ input = TestHeader
    /\ IsOk(result)
    /\ U32Value(result.rec.offset_owner) = 2424

-----------------------------------------------------------------------------
\* C8: the projections never fail.  get_mask and get_sid return the mask and
\* the SID of an Allowed and of an ObjectAllowed payload; get_flags returns a
\* value iff the payload is ObjectAllowed, and then its flags; get_object_type
\* and get_inherited_object_type return a value iff the payload is
\* ObjectAllowed and bit 0x1, respectively 0x2, is set in the flags it was
\* decoded with, and then the GUID that was decoded from the buffer.
C8_Projections ==
    pc = "projected" =>
        LET obj == value.variant = "AceObjectAllowed"
            two == value.variant \in {"AceAllowed", "AceObjectAllowed"}
            \* where the payload of a decoded ObjectAllowed ACE starts
            at == IF decoder = "Ace" THEN 4 ELSE 0
            fromBuffer == obj /\ decoder \in {"Ace", "AccessAllowedObjectAce"}
        IN /\ ret.some \in BOOLEAN
           /\ getter = "get_mask" => (two => ret = Some(value.mask))
           /\ getter = "get_sid" => (two => ret = Some(value.sid))
           /\ getter = "get_flags" =>
                 /\ ret.some <=> obj
                 /\ obj => ret.v = value.flags
           /\ getter = "get_object_type" =>
                 /\ ret.some <=> (obj /\ contains(value.flags, ACE_OBJECT_PRESENT))
                 /\ (ret.some /\ fromBuffer) => ret.v = LE128(input, at + 9)
           /\ getter = "get_inherited_object_type" =>
                 /\ ret.some <=>
                       (obj /\ contains(value.flags, ACE_INHERITED_OBJECT_PRESENT))
                 /\ (ret.some /\ fromBuffer) =>
                       ret.v = LE128(input, at + 9 + 16 * Bit(input[at + 5], 1))

C8_Witness ==
    /\ pc = "projected"
    /\ getter = "get_inherited_object_type"
    /\ value.variant = "AceObjectAllowed"
    /\ value.flags.bits = <<0, 0, 0, 3>>
    /\ ret.some
    /\ ret.v # value.object_type.v

-----------------------------------------------------------------------------
\* the ACE records of a successful Ace::parse or Acl::parse outcome
DecodedAces ==
    IF pc = "decoded" /\ IsOk(result)
    THEN CASE decoder = "Ace" -> {result.rec}
           [] decoder = "Acl" -> {result.rec.data[k] : k \in 1..Len(result.rec.data)}
           [] OTHER -> {}
    ELSE {}

\* C9: decoding never produces the Empty payload: every ACE of a successful
\* Ace::parse or Acl::parse carries an Allowed or an ObjectAllowed payload, and
\* which of the two is fixed by its recorded type tag.
C9_NoEmpty ==
    \A ace \in DecodedAces :
        /\ ace.data.variant # "Empty"
        /\ ace.data.variant = "AceAllowed" <=> ace.ace_type \in AllowedTags
        /\ ace.data.variant = "AceObjectAllowed" <=> ace.ace_type \in ObjectTags

C9_Witness ==
    /\ Decoded("Acl")
    /\ \E a, b \in DecodedAces :
          /\ a.data.variant = "AceAllowed"
          /\ b.data.variant = "AceObjectAllowed"
          /\ a.ace_type = ACCESS_DENIED_ACE_TYPE
          /\ b.ace_type = ACCESS_DENIED_OBJECT_ACE_TYPE

-----------------------------------------------------------------------------
\* the bytes appended to a buffer, or put in place of its unconsumed part
Extensions == {<<>>} \cup UNION {[1..k -> {0, 1, 255}] : k \in 1..MaxExtra}

\* C10: a decoder that succeeds returns as remainder a suffix of its input,
\* the consumed prefix followed by the remainder being the input, and its
\* record depends on the consumed prefix only: with other bytes after that
\* prefix the record is the same and the remainder is these bytes, and with
\* bytes appended to the input the record is the same and the remainder is
\* extended by exactly these bytes.
C10_PrefixOnly ==
    (pc = "decoded" /\ IsOk(result)) =>
        LET used == Len(input) - Len(result.rem)
        IN /\ used >= 0
           /\ result.rem = Drop(input, used)
           /\ \A e \in Extensions :
                 /\ Run(decoder, Take(input, used) \o e) = Ok(result.rec, e)
                 /\ Run(decoder, input \o e) = Ok(result.rec, result.rem \o e)

C10_Witness ==
    /\ Decoded("Acl")
    /\ IsOk(result)
    /\ Len(result.rec.data) >= 1
    /\ result.rem # <<>>

=============================================================================
